---- MODULE Spec2Model ----
(***************************************************************************)
(* The multi-service authorization flow of                                 *)
(* app/frontend/src/components/OAuthFlow.tsx as a state machine.           *)
(*                                                                         *)
(* The component is a React 18 function component.  Every callback that    *)
(* outlives a render (a setTimeout callback, a message listener, a         *)
(* setInterval callback) is a closure over the values of the render that   *)
(* created it; the model stores that render with the callback.  State      *)
(* updates made by one event handler are batched into one commit, after    *)
(* which the auto-start effect runs when one of its dependencies changed.  *)
(* All setTimeout calls use the same delay, so pending timeouts fire in    *)
(* the order in which they were scheduled.  Indices are 0-based as in the  *)
(* source; sequences are 1-based, so entry i is serviceStatuses[i + 1].    *)
(***************************************************************************)
EXTENDS Integers, Sequences, FiniteSets, TLC

\* ---------------------------------------------------------------- bounds
MaxServices == 2
MaxTimeouts == 2
MaxAttempts == 2
MaxFinish == 2

\* ------------------------------------------------------ program constants
\* The service ids the caller may select: two with a configured OAuth URL,
\* the one that needs no external authorization, and one without a URL.
ServiceIds == {"slack", "github", "cloudabis", "custom"}

SERVICE_OAUTH_URLS == {"microsoft365", "slack", "google-sheets", "jira", "asana", "github"}

NoError == "undefined"
ErrNoUrl == "OAuth URL not configured"
ErrBlocked == "Popup was blocked. Please allow popups for this site."
ErrClosed == "Authorization window was closed"
ErrFailed == "Authorization failed"
ProviderErrors == {NoError, "access_denied"}

VARIABLES
    selectedServices,     \* prop: the caller's ordered selection
    mounted,              \* the mount effects have run
    serviceStatuses,      \* useState: sequence of [id, status, error]
    currentServiceIndex,  \* useState: the cursor
    isComplete,           \* useState
    isAuthorizing,        \* useState: the guard
    effectPending,        \* a setServiceStatuses made by the effect awaits its commit
    timeouts,             \* pending setTimeout callbacks, in scheduling order
    attempts,             \* popup attempts with a listener or a poll still registered
    onCompleteCalls,      \* number of calls of the host's onComplete
    uncaughtError         \* a message listener has thrown

vars == <<selectedServices, mounted, serviceStatuses, currentServiceIndex, isComplete,
          isAuthorizing, effectPending, timeouts, attempts, onCompleteCalls, uncaughtError>>

\* ---------------------------------------------------------------- helpers
Distinct(q) == \A i, j \in 1..Len(q) : i # j => q[i] # q[j]

\* The selections the caller can pass: lists of distinct service ids.  The
\* code treats 'slack' and 'github' alike (both have an OAuth URL), so of two
\* lists that differ by exchanging them only the one with 'slack' first is kept.
SelectedLists ==
    UNION {{q \in [1..n -> ServiceIds] :
               /\ Distinct(q)
               /\ \A j \in 1..n : q[j] = "github" => \E i \in 1..(j - 1) : q[i] = "slack"}
           : n \in 0..MaxServices}

\* prev.map((s, i) => (i === index ? { ...s, status } : s))
SetStatus(statuses, index, status) ==
    [i \in 1..Len(statuses) |->
        IF i = index + 1 THEN [statuses[i] EXCEPT !.status = status] ELSE statuses[i]]

\* prev.map((s, i) => (i === index ? { ...s, status, error } : s))
SetStatusError(statuses, index, status, error) ==
    [i \in 1..Len(statuses) |->
        IF i = index + 1 THEN [statuses[i] EXCEPT !.status = status, !.error = error]
        ELSE statuses[i]]

\* The component state as one record, so that handlers compose.  dirty says
\* that serviceStatuses was replaced since the effect last ran.
Current ==
    [serviceStatuses |-> serviceStatuses,
     currentServiceIndex |-> currentServiceIndex,
     isComplete |-> isComplete,
     isAuthorizing |-> isAuthorizing,
     dirty |-> effectPending,
     timeouts |-> timeouts,
     attempts |-> attempts]

\* What the closures created for entry index during the render of state s
\* read of that render: serviceStatuses[index].id and .status,
\* serviceStatuses.length and isAuthorizing.
RenderOf(s, index) ==
    [id |-> s.serviceStatuses[index + 1].id,
     status |-> s.serviceStatuses[index + 1].status,
     length |-> Len(s.serviceStatuses),
     isAuthorizing |-> s.isAuthorizing]

\* ------------------------------------------------------------- handlers
\* handleServiceSuccess of the render r, lines 181-194.  The timeout callback
\* reads serviceStatuses.length of that render.
handleServiceSuccess(s, index, r) ==
    [s EXCEPT !.serviceStatuses = SetStatus(@, index, "success"),
              !.dirty = TRUE,
              !.timeouts = Append(@, [kind |-> "advance", index |-> index, length |-> r.length])]

\* handleServiceError, lines 196-200.
handleServiceError(s, index, error) ==
    [s EXCEPT !.serviceStatuses = SetStatusError(@, index, "error", error),
              !.dirty = TRUE]

\* The timeout callback with the bound test of line 188 off by one.
AdvanceCallbackPastEnd(s, index, length) ==
    IF index + 1 <= length
    THEN [s EXCEPT !.currentServiceIndex = index + 1]
    ELSE [s EXCEPT !.isComplete = TRUE]

\* The callback of handleServiceSuccess's setTimeout, lines 187-193.
AdvanceCallback(s, index, length) ==
    IF index + 1 < length
    THEN [s EXCEPT !.currentServiceIndex = index + 1]
    ELSE [s EXCEPT !.isComplete = TRUE]

\* handleAuthorize without the setIsAuthorizing(false) of line 137.
handleAuthorizeKeepsGuard(s, index, r, popupOk) ==
    LET started == [s EXCEPT !.isAuthorizing = TRUE,
                             !.serviceStatuses = SetStatus(@, index, "authorizing"),
                             !.dirty = TRUE]
    IN  IF r.isAuthorizing THEN s
        ELSE IF r.id \notin SERVICE_OAUTH_URLS
        THEN [handleServiceError(started, index, ErrNoUrl) EXCEPT !.isAuthorizing = FALSE]
        ELSE IF ~popupOk
        THEN handleServiceError(started, index, ErrBlocked)
        ELSE [started EXCEPT !.attempts =
                 Append(@, [index |-> index, render |-> r, closed |-> FALSE,
                            listener |-> TRUE, poll |-> TRUE])]

\* handleAuthorize of the render r, lines 91-179.  popupOk is the outcome of
\* window.open: FALSE when it returns null or a closed window.
handleAuthorize(s, index, r, popupOk) ==
    LET started == [s EXCEPT !.isAuthorizing = TRUE,
                             !.serviceStatuses = SetStatus(@, index, "authorizing"),
                             !.dirty = TRUE]
    IN  IF r.isAuthorizing THEN s
        ELSE IF r.id \notin SERVICE_OAUTH_URLS
        THEN [handleServiceError(started, index, ErrNoUrl) EXCEPT !.isAuthorizing = FALSE]
        ELSE IF ~popupOk
        THEN [handleServiceError(started, index, ErrBlocked) EXCEPT !.isAuthorizing = FALSE]
        ELSE [started EXCEPT !.attempts =
                 Append(@, [index |-> index, render |-> r, closed |-> FALSE,
                            listener |-> TRUE, poll |-> TRUE])]

\* handleMessage of one attempt, lines 144-158.
handleMessage(s, k, type, service, error) ==
    LET a == s.attempts[k]
        id == a.render.id
        off == [s EXCEPT !.attempts[k].listener = FALSE, !.isAuthorizing = FALSE]
    IN  IF type = "oauth_success" /\ service = id
        THEN handleServiceSuccess(off, a.index, a.render)
        ELSE IF type = "oauth_error" /\ service = id
        THEN handleServiceError(off, a.index, IF error = NoError THEN ErrFailed ELSE error)
        ELSE s

\* window dispatches a message event to every registered listener, in the
\* order of registration (line 160).
RECURSIVE DispatchMessage(_, _, _, _, _)
DispatchMessage(s, k, type, service, error) ==
    IF k > Len(s.attempts) THEN s
    ELSE DispatchMessage(
             IF s.attempts[k].listener THEN handleMessage(s, k, type, service, error) ELSE s,
             k + 1, type, service, error)

\* Remove entry k of a sequence.
RemoveAt(q, k) == SubSeq(q, 1, k - 1) \o SubSeq(q, k + 1, Len(q))

\* One tick of checkPopup of attempt k that finds the popup closed, lines 163-178.
checkPopup(s, k) ==
    LET a == s.attempts[k]
        cleared == [s EXCEPT !.attempts = RemoveAt(@, k), !.isAuthorizing = FALSE]
        currentStatus == a.render.status
    IN  IF currentStatus = "authorizing"
        THEN handleServiceError(cleared, a.index, ErrClosed)
        ELSE cleared

\* handleRetry, lines 202-208.
handleRetry(s, index) ==
    [s EXCEPT !.serviceStatuses = SetStatusError(@, index, "pending", NoError),
              !.dirty = TRUE,
              !.isAuthorizing = FALSE,
              !.currentServiceIndex = index]

\* handleSkip that records the skip in the status of the row.
handleSkipMarksRow(s, index) ==
    IF index + 1 < Len(s.serviceStatuses)
    THEN [s EXCEPT !.currentServiceIndex = index + 1,
                   !.serviceStatuses = SetStatus(@, index, "skipped"),
                   !.dirty = TRUE]
    ELSE [s EXCEPT !.isComplete = TRUE,
                   !.serviceStatuses = SetStatus(@, index, "skipped"),
                   !.dirty = TRUE]

\* handleSkip with the bound test of line 211 off by one.
handleSkipOffByOne(s, index) ==
    IF index + 1 <= Len(s.serviceStatuses)
    THEN [s EXCEPT !.currentServiceIndex = index + 1]
    ELSE [s EXCEPT !.isComplete = TRUE]

\* handleSkip of the current render, lines 210-216.
handleSkip(s, index) ==
    IF index + 1 < Len(s.serviceStatuses)
    THEN [s EXCEPT !.currentServiceIndex = index + 1]
    ELSE [s EXCEPT !.isComplete = TRUE]

\* The auto-start effect, lines 73-89, run after the commit of state s.
AutoStartEffect(s) ==
    LET c == [s EXCEPT !.dirty = FALSE] IN
    IF Len(c.serviceStatuses) > 0 /\ c.currentServiceIndex < Len(c.serviceStatuses)
       /\ ~c.isAuthorizing
    THEN IF c.serviceStatuses[c.currentServiceIndex + 1].id = "cloudabis"
         THEN handleServiceSuccess(c, c.currentServiceIndex, RenderOf(c, c.currentServiceIndex))
         ELSE [c EXCEPT !.timeouts =
                  Append(@, [kind |-> "authorize", index |-> c.currentServiceIndex,
                             render |-> RenderOf(c, c.currentServiceIndex)])]
    ELSE c

\* The dependencies of the effect, line 89: it runs after a commit in which
\* the cursor or the guard changed or serviceStatuses was replaced.
DepsChanged(old, new) ==
    \/ new.dirty
    \/ new.currentServiceIndex # old.currentServiceIndex
    \/ new.isAuthorizing # old.isAuthorizing

\* The commit that follows a handler: one render for the batched updates,
\* then the effect when its dependencies changed.
Commit(old, new) == IF DepsChanged(old, new) THEN AutoStartEffect(new) ELSE new

\* ---------------------------------------------------------------- actions
\* The component's state after an event: the handler's updates, committed.
Apply(new) ==
    /\ Len(new.timeouts) <= MaxTimeouts
    /\ Len(new.attempts) <= MaxAttempts
    /\ serviceStatuses' = new.serviceStatuses
    /\ currentServiceIndex' = new.currentServiceIndex
    /\ isComplete' = new.isComplete
    /\ isAuthorizing' = new.isAuthorizing
    /\ effectPending' = new.dirty
    /\ timeouts' = new.timeouts
    /\ attempts' = new.attempts

\* useState initial values, lines 58-61.
Init ==
    /\ selectedServices \in SelectedLists
    /\ mounted = FALSE
    /\ serviceStatuses = <<>>
    /\ currentServiceIndex = 0
    /\ isComplete = FALSE
    /\ isAuthorizing = FALSE
    /\ effectPending = FALSE
    /\ timeouts = <<>>
    /\ attempts = <<>>
    /\ onCompleteCalls = 0
    /\ uncaughtError = FALSE

\* Callbacks of an unmounted instance are still scheduled or registered.
Orphaned == ~mounted /\ (timeouts # <<>> \/ attempts # <<>>)

\* The initialising effect, lines 63-71, and the commit that follows it.  The
\* timeouts and attempts of the model are those of the mounted instance, so an
\* instance is mounted only when none of an earlier instance is left.
Mount ==
    /\ ~mounted
    /\ ~Orphaned
    /\ mounted' = TRUE
    /\ LET statuses == [i \in 1..Len(selectedServices) |->
                           [id |-> selectedServices[i], status |-> "pending",
                            error |-> NoError]]
       IN Apply(Commit(Current, [Current EXCEPT !.serviceStatuses = statuses,
                                                !.dirty = TRUE]))
    /\ UNCHANGED <<selectedServices, onCompleteCalls, uncaughtError>>

\* The commit of an update that the effect itself made (line 80): the effect
\* runs again because serviceStatuses was replaced.
Rerender ==
    /\ mounted
    /\ effectPending
    /\ Apply(AutoStartEffect(Current))
    /\ UNCHANGED <<selectedServices, mounted, onCompleteCalls, uncaughtError>>

\* The auto-start timeout of lines 85-87 fires.
AuthorizeTimer(popupOk) ==
    /\ mounted
    /\ timeouts # <<>>
    /\ Head(timeouts).kind = "authorize"
    /\ LET t == Head(timeouts)
           s == [Current EXCEPT !.timeouts = Tail(@)]
       IN Apply(Commit(Current, handleAuthorize(s, t.index, t.render, popupOk)))
    /\ UNCHANGED <<selectedServices, mounted, onCompleteCalls, uncaughtError>>

\* The advance timeout of lines 187-193 fires.
AdvanceTimer ==
    /\ mounted
    /\ timeouts # <<>>
    /\ Head(timeouts).kind = "advance"
    /\ LET t == Head(timeouts)
           s == [Current EXCEPT !.timeouts = Tail(@)]
       IN Apply(Commit(Current, AdvanceCallback(s, t.index, t.length)))
    /\ UNCHANGED <<selectedServices, mounted, onCompleteCalls, uncaughtError>>

\* The popup named oauth_<id> of service index is closed (by the user or by
\* the page it shows).  Every attempt on that service whose popup is still
\* open holds the same window, because window.open reuses a window by name
\* (lines 127-131).
PopupClosed(index) ==
    /\ \E k \in 1..Len(attempts) : attempts[k].index = index /\ ~attempts[k].closed
    /\ attempts' = [k \in 1..Len(attempts) |->
                      IF attempts[k].index = index
                      THEN [attempts[k] EXCEPT !.closed = TRUE] ELSE attempts[k]]
    /\ UNCHANGED <<selectedServices, mounted, serviceStatuses, currentServiceIndex,
                   isComplete, isAuthorizing, effectPending, timeouts, onCompleteCalls, uncaughtError>>

\* The 500 ms interval of attempt k ticks and finds its popup closed.
PollTick(k) ==
    /\ mounted
    /\ k \in 1..Len(attempts)
    /\ attempts[k].poll
    /\ attempts[k].closed
    /\ Apply(Commit(Current, checkPopup(Current, k)))
    /\ UNCHANGED <<selectedServices, mounted, onCompleteCalls, uncaughtError>>

\* The open popup of a service posts a completion message to the opener.
Message(type, service, error) ==
    /\ mounted
    /\ \E k \in 1..Len(attempts) :
          /\ ~attempts[k].closed
          /\ attempts[k].render.id = service
    /\ Apply(Commit(Current, DispatchMessage(Current, 1, type, service, error)))
    /\ UNCHANGED <<selectedServices, mounted, onCompleteCalls, uncaughtError>>

\* A Retry button that is rendered on every row, whatever its status.
RetryAnyRow(index) ==
    /\ mounted
    /\ index \in 0..(Len(serviceStatuses) - 1)
    /\ Apply(Commit(Current, handleRetry(Current, index)))
    /\ UNCHANGED <<selectedServices, mounted, onCompleteCalls, uncaughtError>>

\* The Retry button of a row, rendered for status 'error' only (lines 281-285).
Retry(index) ==
    /\ mounted
    /\ index \in 0..(Len(serviceStatuses) - 1)
    /\ serviceStatuses[index + 1].status = "error"
    /\ Apply(Commit(Current, handleRetry(Current, index)))
    /\ UNCHANGED <<selectedServices, mounted, onCompleteCalls, uncaughtError>>

\* The Skip button of a row, rendered for status 'error' only (lines 286-288).
Skip(index) ==
    /\ mounted
    /\ index \in 0..(Len(serviceStatuses) - 1)
    /\ serviceStatuses[index + 1].status = "error"
    /\ Apply(Commit(Current, handleSkip(Current, index)))
    /\ UNCHANGED <<selectedServices, mounted, onCompleteCalls, uncaughtError>>

\* A Skip Remaining button that is disabled while an attempt is in flight.
SkipRemainingWhenIdle ==
    /\ mounted
    /\ ~isComplete
    /\ ~isAuthorizing
    /\ Apply(Commit(Current, [Current EXCEPT !.isComplete = TRUE]))
    /\ UNCHANGED <<selectedServices, mounted, onCompleteCalls, uncaughtError>>

\* The Skip Remaining button, rendered while the flow is not complete
\* (lines 314-327).
SkipRemaining ==
    /\ mounted
    /\ ~isComplete
    /\ Apply(Commit(Current, [Current EXCEPT !.isComplete = TRUE]))
    /\ UNCHANGED <<selectedServices, mounted, onCompleteCalls, uncaughtError>>

\* A Go to Dashboard button that is rendered before the flow is complete.
FinishAnyTime ==
    /\ mounted
    /\ onCompleteCalls < MaxFinish
    /\ onCompleteCalls' = onCompleteCalls + 1
    /\ UNCHANGED <<selectedServices, mounted, serviceStatuses, currentServiceIndex,
                   isComplete, isAuthorizing, effectPending, timeouts, attempts,
                   uncaughtError>>

\* The Go to Dashboard button, rendered while the flow is complete
\* (lines 298-312), calls handleFinish (lines 218-220).
Finish ==
    /\ mounted
    /\ isComplete
    /\ onCompleteCalls < MaxFinish
    /\ onCompleteCalls' = onCompleteCalls + 1
    /\ UNCHANGED <<selectedServices, mounted, serviceStatuses, currentServiceIndex,
                   isComplete, isAuthorizing, effectPending, timeouts, attempts,
                   uncaughtError>>

Next ==
    \/ Mount
    \/ Rerender
    \/ \E popupOk \in BOOLEAN : AuthorizeTimer(popupOk)
    \/ AdvanceTimer
    \/ \E index \in 0..(MaxServices - 1) : PopupClosed(index)
    \/ \E k \in 1..MaxAttempts : PollTick(k)
    \/ \E type \in {"oauth_success", "oauth_error"}, service \in ServiceIds,
          error \in ProviderErrors : Message(type, service, error)
    \/ \E index \in 0..(MaxServices - 1) : Retry(index)
    \/ \E index \in 0..(MaxServices - 1) : Skip(index)
    \/ SkipRemaining

\* The flow without the host: Finish changes onCompleteCalls only, which no
\* other action reads.
Spec == Init /\ [][Next]_vars

NextHost ==
    \/ Next
    \/ Finish

\* The flow with the Go to Dashboard button.
SpecHost == Init /\ [][NextHost]_vars

\* The attempts whose listener, or poll, is registered.
RegisteredListeners == {k \in 1..Len(attempts) : attempts[k].listener}

RegisteredPolls == {k \in 1..Len(attempts) : attempts[k].poll}

\* ---------------------------------------------------------------- unmount
\* The host stops rendering the component.  React discards the state of the
\* instance.  Neither effect returns a cleanup function (lines 63-71 and
\* 73-89) and handleAuthorize keeps its listener and interval in local
\* constants only (lines 144-178), so the pending timeouts, the listeners and
\* the intervals stay with the window.
Unmount ==
    /\ mounted
    /\ mounted' = FALSE
    /\ serviceStatuses' = <<>>
    /\ currentServiceIndex' = 0
    /\ isComplete' = FALSE
    /\ isAuthorizing' = FALSE
    /\ effectPending' = FALSE
    /\ UNCHANGED <<selectedServices, timeouts, attempts, onCompleteCalls, uncaughtError>>

\* A callback of the unmounted instance runs: its state setters do nothing,
\* its calls of setTimeout, addEventListener, removeEventListener, setInterval
\* and clearInterval take effect.
OrphanApply(new) ==
    /\ Orphaned
    /\ Len(new.timeouts) <= MaxTimeouts
    /\ Len(new.attempts) <= MaxAttempts
    /\ timeouts' = new.timeouts
    /\ attempts' = new.attempts
    /\ UNCHANGED <<selectedServices, mounted, serviceStatuses, currentServiceIndex,
                   isComplete, isAuthorizing, effectPending, onCompleteCalls, uncaughtError>>

\* The auto-start timeout of lines 85-87 fires after the unmount.
OrphanAuthorizeTimer(popupOk) ==
    /\ timeouts # <<>>
    /\ Head(timeouts).kind = "authorize"
    /\ LET t == Head(timeouts)
           s == [Current EXCEPT !.timeouts = Tail(@)]
       IN OrphanApply(handleAuthorize(s, t.index, t.render, popupOk))

\* The advance timeout of lines 187-193 fires after the unmount.
OrphanAdvanceTimer ==
    /\ timeouts # <<>>
    /\ Head(timeouts).kind = "advance"
    /\ LET t == Head(timeouts)
           s == [Current EXCEPT !.timeouts = Tail(@)]
       IN OrphanApply(AdvanceCallback(s, t.index, t.length))

\* The interval of attempt k ticks after the unmount and finds its popup closed.
OrphanPollTick(k) ==
    /\ k \in 1..Len(attempts)
    /\ attempts[k].poll
    /\ attempts[k].closed
    /\ OrphanApply(checkPopup(Current, k))

\* The open popup posts its completion message after the unmount.
OrphanMessage(type, service, error) ==
    /\ \E k \in 1..Len(attempts) :
          /\ ~attempts[k].closed
          /\ attempts[k].render.id = service
    /\ OrphanApply(DispatchMessage(Current, 1, type, service, error))

\* The flow under a host that may unmount it.
NextUnmount ==
    \/ Next
    \/ Unmount
    \/ \E popupOk \in BOOLEAN : OrphanAuthorizeTimer(popupOk)
    \/ OrphanAdvanceTimer
    \/ \E k \in 1..MaxAttempts : OrphanPollTick(k)
    \/ \E type \in {"oauth_success", "oauth_error"}, service \in ServiceIds,
          error \in ProviderErrors : OrphanMessage(type, service, error)

SpecUnmount == Init /\ [][NextUnmount]_vars

\* ---------------------------------------------------- messages of any shape
\* The listener is registered on window without a test of event.origin or
\* event.source (line 160), so any window can deliver any event.data.  A
\* datum is null (null or undefined, on which a property access throws) or a
\* value with a type and a service property, either of which may be missing
\* ("undefined") or have an unexpected value.
OtherData ==
    {[null |-> TRUE, type |-> "undefined", service |-> "undefined"],
     [null |-> FALSE, type |-> "undefined", service |-> "undefined"],
     [null |-> FALSE, type |-> "other", service |-> "slack"],
     [null |-> FALSE, type |-> "oauth_success", service |-> "undefined"]}

\* A window posts a datum that has not the shape {type, service} of a
\* completion message.  Every registered listener runs (lines 144-158):
\* event.data.type throws a TypeError on null data (line 147); a listener
\* that takes neither branch calls no state setter, so nothing is committed.
WindowMessage(data) ==
    /\ mounted
    /\ RegisteredListeners # {}
    /\ IF data.null
       THEN /\ uncaughtError' = TRUE
            /\ UNCHANGED <<selectedServices, mounted, serviceStatuses, currentServiceIndex,
                           isComplete, isAuthorizing, effectPending, timeouts, attempts,
                           onCompleteCalls>>
       ELSE LET new == DispatchMessage(Current, 1, data.type, data.service, NoError)
            IN  IF new = Current
                THEN UNCHANGED vars
                ELSE /\ Apply(Commit(Current, new))
                     /\ UNCHANGED <<selectedServices, mounted, onCompleteCalls,
                                    uncaughtError>>

NextWindow ==
    \/ Next
    \/ \E data \in OtherData : WindowMessage(data)

\* The flow in a window that receives messages of any shape.
SpecWindow == Init /\ [][NextWindow]_vars

\* ------------------------------------------------------------- longer list
\* A list one longer than MaxServices: a service without an OAuth URL, the
\* service that needs no authorization, and a service with an OAuth URL.
LongLists == {<<"custom", "cloudabis", "slack">>}

InitLong ==
    /\ selectedServices \in LongLists
    /\ mounted = FALSE
    /\ serviceStatuses = <<>>
    /\ currentServiceIndex = 0
    /\ isComplete = FALSE
    /\ isAuthorizing = FALSE
    /\ effectPending = FALSE
    /\ timeouts = <<>>
    /\ attempts = <<>>
    /\ onCompleteCalls = 0
    /\ uncaughtError = FALSE

\* Next with the popup and the buttons of the last row of a longer list.
NextLong ==
    \/ Next
    \/ PopupClosed(MaxServices)
    \/ Retry(MaxServices)
    \/ Skip(MaxServices)

SpecLong == InitLong /\ [][NextLong]_vars

\* ---------------------------------------------------------- the happy path
\* The non-empty selections in which every service has an OAuth URL.
LiveLists ==
    UNION {{q \in [1..n -> ServiceIds \cap SERVICE_OAUTH_URLS] : Distinct(q)}
           : n \in 1..MaxServices}

InitLive ==
    /\ selectedServices \in LiveLists
    /\ mounted = FALSE
    /\ serviceStatuses = <<>>
    /\ currentServiceIndex = 0
    /\ isComplete = FALSE
    /\ isAuthorizing = FALSE
    /\ effectPending = FALSE
    /\ timeouts = <<>>
    /\ attempts = <<>>
    /\ onCompleteCalls = 0
    /\ uncaughtError = FALSE

\* The popup of service index closes after every listener of its attempts
\* has taken its completion message.
PopupDone(index) ==
    /\ \A k \in 1..Len(attempts) : attempts[k].index = index => ~attempts[k].listener
    /\ PopupClosed(index)

\* No popup is blocked, every popup posts oauth_success and then closes, and
\* the user clicks nothing.
NextLive ==
    \/ Mount
    \/ AuthorizeTimer(TRUE)
    \/ AdvanceTimer
    \/ \E service \in ServiceIds : Message("oauth_success", service, NoError)
    \/ \E index \in 0..(MaxServices - 1) : PopupDone(index)
    \/ \E k \in 1..MaxAttempts : PollTick(k)

\* Timers fire, open popups post their message and close, intervals tick.
Fairness ==
    /\ WF_vars(Mount)
    /\ WF_vars(AuthorizeTimer(TRUE))
    /\ WF_vars(AdvanceTimer)
    /\ \A service \in ServiceIds : WF_vars(Message("oauth_success", service, NoError))
    /\ \A index \in 0..(MaxServices - 1) : WF_vars(PopupDone(index))
    /\ \A k \in 1..MaxAttempts : WF_vars(PollTick(k))

SpecLive == InitLive /\ [][NextLive]_vars /\ Fairness

\* ----------------------------------------------------------------- claims
Indices == 0..(Len(serviceStatuses) - 1)

StatusOf(index) == serviceStatuses[index + 1].status

\* C1: the host's onComplete is invoked at most once per flow, whatever the
\* outcomes of the attempts and the clicks of the user.
C1_OnCompleteAtMostOnce == onCompleteCalls <= 1

\* C2: single-flight: in every reachable state at most one entry of
\* serviceStatuses has status 'authorizing'.
C2_SingleFlight == Cardinality({i \in Indices : StatusOf(i) = "authorizing"}) <= 1

\* C3: success is absorbing: a service whose status is 'success' keeps that
\* status in every later state.
C3_SuccessAbsorbing ==
    [][\A i \in Indices : StatusOf(i) = "success" => serviceStatuses'[i + 1].status = "success"]_vars

\* C4: a service in status 'error' leaves that status only by Retry, and no
\* auto-start timeout starts an attempt for a service that is in status 'error'.
C4_ErrorWaitsForUser ==
    [][/\ \A i \in Indices :
            StatusOf(i) = "error" =>
                \/ serviceStatuses'[i + 1].status = "error"
                \/ Retry(i)
       /\ \A popupOk \in BOOLEAN :
            AuthorizeTimer(popupOk) => StatusOf(Head(timeouts).index) # "error"]_vars

\* C5: resolve-once: when a message has resolved an attempt (its listener is
\* removed), the later tick of that attempt's poll that finds the popup
\* closed leaves the status of the attempt's service as the message set it.
C5_ResolveOnce ==
    [][\A k \in 1..Len(attempts) :
          (PollTick(k) /\ ~attempts[k].listener) =>
              serviceStatuses'[attempts[k].index + 1].status = StatusOf(attempts[k].index)]_vars

\* The ids of the services that are being authorized.
AuthorizingIds == {serviceStatuses[i + 1].id : i \in {j \in Indices : StatusOf(j) = "authorizing"}}

\* C6: stale-message guard: a completion message whose service is not a
\* service being authorized changes no status, not the cursor, not the guard,
\* and removes no listener.
C6_StaleMessageIgnored ==
    [][\A type \in {"oauth_success", "oauth_error"}, service \in ServiceIds,
          error \in ProviderErrors :
          (Message(type, service, error) /\ service \notin AuthorizingIds) =>
              UNCHANGED <<serviceStatuses, currentServiceIndex, isAuthorizing, attempts>>]_vars

\* C7: guard rejection: while isAuthorizing is true, an auto-start timeout
\* that fires and a click on Retry change no status, open no popup and
\* register no listener or poll.
C7_GuardRejects ==
    [][isAuthorizing =>
          /\ \A popupOk \in BOOLEAN :
                AuthorizeTimer(popupOk) => UNCHANGED <<serviceStatuses, attempts, isAuthorizing>>
          /\ \A i \in Indices :
                Retry(i) => UNCHANGED <<serviceStatuses, attempts, isAuthorizing>>]_vars

\* C8: when the poll of an attempt finds the popup closed while no message
\* has resolved the attempt and the service is 'authorizing', the service
\* becomes 'error' with the window-closed reason.
C8_ClosedPopupIsError ==
    [][\A k \in 1..Len(attempts) :
          (PollTick(k) /\ attempts[k].listener /\ StatusOf(attempts[k].index) = "authorizing") =>
              /\ serviceStatuses'[attempts[k].index + 1].status = "error"
              /\ serviceStatuses'[attempts[k].index + 1].error = ErrClosed]_vars

\* C9: when window.open gives no usable popup for a service that has an
\* OAuth URL, the service is in status 'error' with the popup-blocked reason
\* after the attempt, the guard is false, and no listener and no poll was
\* registered.
C9_BlockedPopup ==
    [][(/\ AuthorizeTimer(FALSE)
        /\ ~Head(timeouts).render.isAuthorizing
        /\ Head(timeouts).render.id \in SERVICE_OAUTH_URLS) =>
          /\ serviceStatuses'[Head(timeouts).index + 1].status = "error"
          /\ serviceStatuses'[Head(timeouts).index + 1].error = ErrBlocked
          /\ ~isAuthorizing'
          /\ attempts' = attempts]_vars

\* C9 witness: a service was left in 'error' by a blocked popup, with the
\* guard clear and no listener or poll registered.
C9_Witness ==
    /\ \E i \in Indices : StatusOf(i) = "error" /\ serviceStatuses[i + 1].error = ErrBlocked
    /\ ~isAuthorizing
    /\ attempts = <<>>

C12_Scenario == selectedServices = <<"slack", "cloudabis">>

\* C12: the service that needs no authorization is never 'authorizing' or
\* 'error' and never has a popup attempt; and in the list [slack, cloudabis]
\* no further popup attempt is made for slack once slack is resolved to
\* 'success', so there is one attempt per resolution.
C12_NoAuthServiceAndOneAttempt ==
    /\ [](\A i \in Indices :
            serviceStatuses[i + 1].id = "cloudabis" =>
                /\ StatusOf(i) \in {"pending", "success"}
                /\ \A k \in 1..Len(attempts) : attempts[k].index # i)
    /\ [][\A popupOk \in BOOLEAN :
            (C12_Scenario /\ AuthorizeTimer(popupOk)) =>
                StatusOf(Head(timeouts).index) # "success"]_vars

\* No timeout, poll, listener or commit of the flow is pending: only a click
\* of the user can change the state.
Quiescent == timeouts = <<>> /\ attempts = <<>> /\ ~effectPending

\* C13: a flow started with an empty service list is complete without any
\* user action: once it is mounted and nothing is pending, isComplete is true.
C13_EmptyListCompletes ==
    (mounted /\ selectedServices = <<>> /\ Quiescent) => isComplete

\* C14: the flow is never stuck: in every state of the mounted flow that is
\* not complete the user can skip the remaining services, which completes the
\* flow whatever the statuses are, and in a complete flow the user can
\* trigger onComplete.  (A full timeout queue is the model's bound, not a
\* state of the flow, and is left out.)
C14_NeverStuck ==
    mounted =>
        /\ (~isComplete /\ Len(timeouts) < MaxTimeouts) => ENABLED SkipRemaining
        /\ (isComplete /\ onCompleteCalls = 0) => ENABLED Finish

\* C14 witness: the flow was completed and onComplete triggered while no
\* service is 'success' and one is still 'pending' or 'error'.
C14_Witness ==
    /\ isComplete
    /\ onCompleteCalls = 1
    /\ \A i \in Indices : StatusOf(i) # "success"
    /\ \E i \in Indices : StatusOf(i) \in {"pending", "error"}

\* C15: after the resolution of an attempt neither its listener nor its poll
\* remains: no attempt is left with its listener removed and its poll still
\* running.
C15_ResolutionTearsDownBoth ==
    \A k \in 1..Len(attempts) : attempts[k].poll => attempts[k].listener

\* C16: in every reachable state at most one message listener and at most one
\* popup poll are registered, so an earlier attempt's listener and poll are
\* gone when a later attempt registers its own.
C16_AtMostOneListenerAndPoll ==
    Cardinality(RegisteredListeners) <= 1 /\ Cardinality(RegisteredPolls) <= 1

\* C17: when the component is unmounted, every pending timeout, message
\* listener and poll interval of the flow is torn down: while the component
\* is not mounted none is scheduled or registered.
C17_UnmountTearsDown ==
    ~mounted => /\ timeouts = <<>>
                /\ RegisteredListeners = {}
                /\ RegisteredPolls = {}

\* The auto-start timeouts pending in queue q for service index.
StartsPending(q, index) ==
    {k \in 1..Len(q) : q[k].kind = "authorize" /\ q[k].index = index}

\* C18: Retry on a service in status 'error' sets its status to 'pending',
\* clears its error, sets the cursor to its index, leaves the status of every
\* other service unchanged, and leaves exactly one start of an attempt
\* scheduled for that service.
C18_RetryRestartsOnce ==
    [][\A i \in Indices : Retry(i) =>
          /\ serviceStatuses'[i + 1].status = "pending"
          /\ serviceStatuses'[i + 1].error = NoError
          /\ currentServiceIndex' = i
          /\ \A j \in Indices \ {i} : serviceStatuses'[j + 1].status = StatusOf(j)
          /\ Cardinality(StartsPending(timeouts', i)) = 1]_vars

completedCount == Cardinality({i \in Indices : StatusOf(i) = "success"})

\* progress, line 223, in percent; 0 / 0 is NaN.
progress ==
    IF Len(serviceStatuses) = 0 THEN "NaN"
    ELSE (completedCount * 100) \div Len(serviceStatuses)

\* C20: progress counts the successful and the skipped services: when Skip is
\* applied to the one service that is not 'success', every service is
\* successful or skipped and the progress is 100%.
C20_ProgressCountsSkipped ==
    [][\A i \in Indices :
          (Skip(i) /\ \A j \in Indices \ {i} : StatusOf(j) = "success") =>
              progress' = 100]_vars

\* C21: the complete flag is a function of the cursor: for a non-empty list
\* isComplete is true exactly when the cursor has passed the last index.
C21_CompleteIffCursorPastEnd ==
    (mounted /\ Len(serviceStatuses) > 0) =>
        (isComplete <=> currentServiceIndex > Len(serviceStatuses) - 1)

\* C22: a message that has not the shape {type: 'oauth_success' |
\* 'oauth_error', service: <id>} is ignored while an attempt is in flight: it
\* raises no error and changes no status, cursor, guard or listener.
C22_OtherMessageIgnored ==
    [][\A data \in OtherData : WindowMessage(data) =>
          /\ uncaughtError' = uncaughtError
          /\ UNCHANGED <<serviceStatuses, currentServiceIndex, isAuthorizing, attempts>>]_vars

\* Attempt j is in flight: its popup is open, its listener is registered and
\* its service is 'authorizing'.
InFlight(j) ==
    /\ attempts[j].listener
    /\ ~attempts[j].closed
    /\ StatusOf(attempts[j].index) = "authorizing"

\* C23: the guard set by an attempt is cleared only by the resolution of that
\* attempt: the poll left over from an earlier attempt does not set
\* isAuthorizing to false while a later attempt is in flight.
C23_GuardClearedByOwnAttempt ==
    [][\A k, j \in 1..Len(attempts) :
          (k < j /\ isAuthorizing /\ InFlight(j) /\ PollTick(k)) => isAuthorizing']_vars

\* C24: once the flow is complete no new attempt is started: an auto-start
\* timeout that fires in a complete state opens no popup and changes no status.
C24_NoAttemptAfterComplete ==
    [][\A popupOk \in BOOLEAN :
          (isComplete /\ AuthorizeTimer(popupOk)) =>
              /\ serviceStatuses' = serviceStatuses
              /\ attempts' = attempts]_vars

\* C25: the guard agrees with the statuses: isAuthorizing is true exactly when
\* some service has status 'authorizing', and such a service is the one at
\* the cursor.
C25_GuardAgreesWithStatuses ==
    /\ isAuthorizing <=> (\E i \in Indices : StatusOf(i) = "authorizing")
    /\ \A i \in Indices : StatusOf(i) = "authorizing" => i = currentServiceIndex

\* C26: Skip never moves the cursor backward: the cursor after Skip on a row
\* is greater than or equal to the cursor before it.
C26_SkipNeverMovesBack ==
    [][\A i \in Indices : Skip(i) => currentServiceIndex' >= currentServiceIndex]_vars

\* C27: an error message is recorded exactly for the failed services: a
\* service has a defined error field if and only if its status is 'error'.
C27_ErrorIffFailed ==
    \A i \in Indices : (serviceStatuses[i + 1].error # NoError) <=> (StatusOf(i) = "error")

\* C28: when every service requires authorization and every popup delivers
\* oauth_success, the flow eventually is complete with every service in
\* status 'success', and it starts exactly one attempt per service: a popup
\* is opened only for a service that is still 'pending'.
C28_CompletesWithOneAttemptEach ==
    /\ <>(isComplete /\ \A i \in Indices : StatusOf(i) = "success")
    /\ [][(AuthorizeTimer(TRUE) /\ Len(attempts') > Len(attempts)) =>
              StatusOf(Head(timeouts).index) = "pending"]_vars

\* C29: for a non-empty list the cursor is always a valid index,
\* 0 <= currentServiceIndex < N; completion is recorded by isComplete and not
\* by the cursor leaving the list.
C29_CursorInRange ==
    (mounted /\ Len(serviceStatuses) > 0) =>
        /\ currentServiceIndex >= 0
        /\ currentServiceIndex < Len(serviceStatuses)

\* The last of two services has succeeded and the flow is complete, with the
\* cursor on the last index.
C29_Witness ==
    /\ Len(serviceStatuses) = 2
    /\ isComplete
    /\ currentServiceIndex = 1
    /\ StatusOf(0) = "success"
    /\ StatusOf(1) = "success"

\* C30: onComplete is invoked only in a state where isComplete is true: the
\* finish action is not available before the flow is complete.
C30_FinishOnlyWhenComplete ==
    [][onCompleteCalls' # onCompleteCalls => (isComplete /\ isComplete')]_vars

\* The host has been notified once, after both services succeeded.
C30_Witness ==
    /\ onCompleteCalls = 1
    /\ Len(serviceStatuses) = 2
    /\ \A i \in Indices : StatusOf(i) = "success"

====
